---------------------------- MODULE Spec2Model ----------------------------
(***************************************************************************)
(* Model of the Domonap intercom integration for Home Assistant:           *)
(*   custom_components/domonap/actions.py  (entry selector, last-call      *)
(*       sensor locator, the three relay-open service handlers)            *)
(*   custom_components/domonap/sensor.py   (last-call door id tracker)     *)
(*   custom_components/domonap/util.py     (phone digit extraction)        *)
(*                                                                         *)
(* Text is modelled as a sequence of one-character strings so that         *)
(* str(), strip() and re.sub(r"\D", "", ...) are computed, not assumed.    *)
(* Python values are tagged records [t, s, n]: t is the Python type, s the *)
(* text of a str, n the number of an int.                                  *)
(***************************************************************************)
EXTENDS Integers, Sequences, FiniteSets, TLC

(***************************************************************************)
(* Bounds of the model.                                                    *)
(***************************************************************************)
\* incoming-call events fired on the host bus in one behaviour
MaxEvents == 2
\* incoming-call events around the one invocation of Spec
MaxCallEvents == 1
\* service invocations that may be in flight at the same time
MaxConcurrent == 2
\* accounts in the registries the entry selector is applied to
MaxAccounts == 3
\* entities in the host states the sensor locator is applied to
MaxEntities == 3
\* characters in the phone numbers and titles the resolver is applied to
MaxPhoneLen == 2

(***************************************************************************)
(* Python values and text.                                                 *)
(***************************************************************************)
PyNone == [t |-> "None", s |-> <<>>, n |-> 0]
PyStr(txt) == [t |-> "str", s |-> txt, n |-> 0]
PyInt(k) == [t |-> "int", s |-> <<>>, n |-> k]

Digit == <<"0", "1", "2", "3", "4", "5", "6", "7", "8", "9">>

RECURSIVE NatText(_)
\* decimal text of a natural number
NatText(k) == IF k < 10 THEN <<Digit[k + 1]>>
              ELSE NatText(k \div 10) \o <<Digit[(k % 10) + 1]>>

\* str(x) for the values event payloads carry
Str(v) == CASE v.t = "str" -> v.s
            [] v.t = "int" -> NatText(v.n)
            [] OTHER -> <<"N", "o", "n", "e">>

IsSpace(c) == c \in {" ", "\t", "\n"}

RECURSIVE LStrip(_)
LStrip(txt) == IF txt # <<>> /\ IsSpace(Head(txt)) THEN LStrip(Tail(txt)) ELSE txt

RECURSIVE RStrip(_)
RStrip(txt) == IF txt # <<>> /\ IsSpace(txt[Len(txt)])
               THEN RStrip(SubSeq(txt, 1, Len(txt) - 1)) ELSE txt

\* str.strip()
Strip(txt) == RStrip(LStrip(txt))

\* Python truthiness of a payload value: None, "" and 0 are falsy
Truthy(v) == CASE v.t = "str" -> v.s # <<>>
               [] v.t = "int" -> v.n # 0
               [] OTHER -> FALSE


(***************************************************************************)
(* Config entries of the host (homeassistant ConfigEntry: entry_id, data,  *)
(* title).  e1 was set up with a phone number, e2 has none and a title     *)
(* without digits.  Unconfigured is an id no entry has.                    *)
(***************************************************************************)
E1 == <<"e", "1">>
E2 == <<"e", "2">>
Unconfigured == <<"z", "z">>
EntryIds == {E1, E2}

EntryPhone(e) == IF e = E1 THEN PyStr(<<"+", "7", " ", "9", "1">>) ELSE PyNone
EntryTitle(e) == IF e = E1 THEN PyStr(<<"+", "7", " ", "9", "1">>)
                 ELSE PyStr(<<"H", "o", "m", "e">>)

IsDigit(c) == \E i \in 1..10 : Digit[i] = c

RECURSIVE StripNonDigits(_)
\* re.sub(r"\D", "", txt)
StripNonDigits(txt) ==
    IF txt = <<>> THEN <<>>
    ELSE IF IsDigit(Head(txt)) THEN <<Head(txt)>> \o StripNonDigits(Tail(txt))
    ELSE StripNonDigits(Tail(txt))

\* `digits or None`
OrNone(txt) == IF txt # <<>> THEN PyStr(txt) ELSE PyNone

\* util.extract_phone_digits(entry), on entry.data.get("phone_number") and entry.title
extract_phone_digits(phone, title) ==
    IF phone.t = "str" /\ Strip(phone.s) # <<>>
    THEN OrNone(StripNonDigits(phone.s))
    ELSE OrNone(StripNonDigits(IF title.t = "str" THEN title.s ELSE <<>>))

PhoneDigits(e) == extract_phone_digits(EntryPhone(e), EntryTitle(e))

(***************************************************************************)
(* Entity ids.                                                             *)
(***************************************************************************)
SensorDot == <<"s", "e", "n", "s", "o", "r", ".">>
DomainName == <<"d", "o", "m", "o", "n", "a", "p">>
LastCallSuffix == <<"_", "l", "a", "s", "t", "_", "c", "a", "l", "l", "_",
                    "d", "o", "o", "r", "_", "i", "d">>

StartsWith(txt, pre) == Len(txt) >= Len(pre) /\ SubSeq(txt, 1, Len(pre)) = pre
EndsWith(txt, suf) ==
    Len(txt) >= Len(suf) /\ SubSeq(txt, Len(txt) - Len(suf) + 1, Len(txt)) = suf

\* f"sensor.{phone_digits}_last_call_door_id"
CanonicalId(digits) == SensorDot \o digits \o LastCallSuffix
\* f"sensor.{DOMAIN}_{entry_id}_last_call_door_id"
LegacyId(e) == SensorDot \o DomainName \o <<"_">> \o e \o LastCallSuffix

\* The entity id the host gives the last-call sensor of entry e: the
\* suggested object id when there are phone digits, else the id built from
\* the device name "Domonap <entry_id>" and the entity name.
SensorEntityId(e) ==
    IF PhoneDigits(e).t = "str" THEN CanonicalId(PhoneDigits(e).s) ELSE LegacyId(e)

(***************************************************************************)
(* The empty sentinels of the host state machine.                          *)
(***************************************************************************)
T_unknown == <<"u", "n", "k", "n", "o", "w", "n">>
T_unavailable == <<"u", "n", "a", "v", "a", "i", "l", "a", "b", "l", "e">>
T_none == <<"n", "o", "n", "e">>
T_None == <<"N", "o", "n", "e">>
EmptySentinels == {T_unknown, T_unavailable, T_none, T_None, <<>>}

\* a Python dict with no keys
EmptyDict == [k \in {} |-> PyNone]

\* Entities of the host that this integration does not own; each holds one
\* of the sentinel values ("x.1" .. "x.5").
ForeignStates ==
    << [entity_id |-> <<"x", ".", "1">>, state |-> T_unknown, attributes |-> EmptyDict],
       [entity_id |-> <<"x", ".", "2">>, state |-> T_unavailable, attributes |-> EmptyDict],
       [entity_id |-> <<"x", ".", "3">>, state |-> T_none, attributes |-> EmptyDict],
       [entity_id |-> <<"x", ".", "4">>, state |-> T_None, attributes |-> EmptyDict],
       [entity_id |-> <<"x", ".", "5">>, state |-> <<>>, attributes |-> EmptyDict] >>
MissingEntity == <<"x", ".", "9">>


(***************************************************************************)
(* Incoming-call event payloads (event.data): dicts from keys to values.   *)
(***************************************************************************)
Dict2(k1, v1, k2, v2) == [k \in {k1, k2} |-> IF k = k1 THEN v1 ELSE v2]
Dict1(k1, v1) == [k \in {k1} |-> v1]

\* dict.get(key): None when the key is absent
Get(d, key) == IF key \in DOMAIN d THEN d[key] ELSE PyNone

PayA == [k \in {"DoorId", "CallId", "Body"} |->
            CASE k = "DoorId" -> PyStr(<<"4", "2">>)
              [] k = "CallId" -> PyStr(<<" ", "1", "2", "3", " ">>)
              [] OTHER -> PyStr(<<"L", "o", "b", "b", "y">>)]
PayB == Dict2("DoorId", PyInt(7), "CallId", PyInt(8))
PayC == Dict1("CallId", PyInt(7))
PayD == Dict2("DoorId", PyStr(<<>>), "CallId", PyStr(<<"9">>))
PayE == Dict2("DoorId", PyStr(<<"4", "3">>), "CallId", PyStr(<<" ", "\t">>))
PayG == Dict1("DoorId", PyStr(<<"4", "4">>))
Payloads == {PayA, PayB, PayC, PayD, PayE, PayG}

(***************************************************************************)
(* State.                                                                  *)
(***************************************************************************)
VARIABLES
    domain_data,   \* hass.data[DOMAIN]: <<[entry_id, api]>> in insertion order
    trackers,      \* entry id -> the DomonapLastCallDoorIdSensor of that entry
    states,        \* hass.states of the last-call sensors, in insertion order
    clock,         \* incoming-call events fired so far (the host's UTC clock)
    calls          \* service invocations: locals, position, vendor calls, result

vars == <<domain_data, trackers, states, clock, calls>>

NoTracker == [exists |-> FALSE, _state |-> PyNone, _attrs |-> EmptyDict,
              _unsub |-> FALSE, writes |-> 0]

\* DomonapLastCallDoorIdSensor.__init__
NewTracker == [exists |-> TRUE, _state |-> PyNone, _attrs |-> EmptyDict,
               _unsub |-> FALSE, writes |-> 0]

Configured == {domain_data[i].entry_id : i \in 1..Len(domain_data)}
AccountOf(e) == CHOOSE i \in 1..Len(domain_data) : domain_data[i].entry_id = e

\* the state the host state machine shows for a sensor: str(native_value),
\* "unknown" while native_value is None
HostState(native_value) ==
    IF native_value.t = "None" THEN T_unknown ELSE Str(native_value)

\* Entity.async_write_ha_state(): publish native_value and
\* extra_state_attributes under the sensor's entity id
WriteState(sts, eid, tr) ==
    IF \E i \in 1..Len(sts) : sts[i].entity_id = eid
    THEN [i \in 1..Len(sts) |->
            IF sts[i].entity_id = eid
            THEN [entity_id |-> eid, state |-> HostState(tr._state),
                  attributes |-> tr._attrs]
            ELSE sts[i]]
    ELSE Append(sts, [entity_id |-> eid, state |-> HostState(tr._state),
                      attributes |-> tr._attrs])

(***************************************************************************)
(* Incoming-Call State Tracker (sensor.py).                                *)
(***************************************************************************)
\* datetime.now(timezone.utc).isoformat() + "Z", the clock reading `now`
Timestamp(now) == PyStr(NatText(now) \o <<"+", "0", "0", ":", "0", "0", "Z">>)

\* attrs = dict(event.data); attrs["ts"] = <timestamp>
StampedAttrs(data, now) ==
    [k \in DOMAIN data \cup {"ts"} |-> IF k = "ts" THEN Timestamp(now) ELSE data[k]]

\* mutant of EventIgnored: only an absent DoorId is ignored
EventIgnored_OnlyAbsent(data) == Get(data, "DoorId").t = "None"

\* `if not door_id: return` of _handle_incoming_call
EventIgnored(data) == ~Truthy(Get(data, "DoorId"))

\* mutant of _handle_incoming_call: the payload is merged into the old
\* attributes instead of replacing them
_handle_incoming_call_Merge(tr, data, now) ==
    IF EventIgnored(data) THEN tr
    ELSE [tr EXCEPT !._state = PyStr(Str(Get(data, "DoorId"))),
                    !._attrs = [k \in DOMAIN tr._attrs \cup DOMAIN data \cup {"ts"} |->
                                  IF k = "ts" THEN Timestamp(now)
                                  ELSE IF k \in DOMAIN data THEN data[k]
                                  ELSE tr._attrs[k]],
                    !.writes = @ + 1]

\* DomonapLastCallDoorIdSensor._handle_incoming_call(event) on tracker tr
_handle_incoming_call(tr, data, now) ==
    IF EventIgnored(data) THEN tr
    ELSE [tr EXCEPT !._state = PyStr(Str(Get(data, "DoorId"))),
                    !._attrs = StampedAttrs(data, now),
                    !.writes = @ + 1]

RECURSIVE PublishAll(_, _, _, _)
\* self.async_write_ha_state() of every tracker in es whose callback
\* accepted the event (old -> new)
PublishAll(sts, old, new, es) ==
    IF es = <<>> THEN sts
    ELSE LET e == Head(es)
             written == IF old[e]._unsub /\ new[e].writes # old[e].writes
                        THEN WriteState(sts, SensorEntityId(e), new[e])
                        ELSE sts
         IN PublishAll(written, old, new, Tail(es))

\* the account is registered by the integration's setup: hass.data[DOMAIN][entry_id]
RegisterAccount(e, hasApi) ==
    /\ e \notin Configured
    /\ domain_data' = Append(domain_data, [entry_id |-> e, api |-> hasApi])
    /\ UNCHANGED <<trackers, states, clock, calls>>

\* sensor.async_setup_entry: one last-call sensor per config entry, added to
\* the host; async_added_to_hass subscribes it to the incoming-call event
SensorSetup(e) ==
    /\ e \in Configured
    /\ domain_data[AccountOf(e)].api
    /\ ~trackers[e].exists
    /\ trackers' = [trackers EXCEPT ![e] = [NewTracker EXCEPT !._unsub = TRUE]]
    /\ states' = WriteState(states, SensorEntityId(e), NewTracker)
    /\ UNCHANGED <<domain_data, clock, calls>>

RECURSIVE Without(_, _)
\* hass.states with entity eid removed
Without(sts, eid) ==
    IF sts = <<>> THEN <<>>
    ELSE IF Head(sts).entity_id = eid THEN Without(Tail(sts), eid)
    ELSE <<Head(sts)>> \o Without(Tail(sts), eid)

\* mutant of SensorRemove: the subscription is not released
SensorRemove_KeepsListening(e) ==
    /\ trackers[e]._unsub
    /\ states' = Without(states, SensorEntityId(e))
    /\ UNCHANGED <<domain_data, trackers, clock, calls>>

\* the sensor is removed from the host: async_will_remove_from_hass
\* unsubscribes, and the host drops the entity's state
SensorRemove(e) ==
    /\ trackers[e]._unsub
    /\ trackers' = [trackers EXCEPT ![e]._unsub = FALSE]
    /\ states' = Without(states, SensorEntityId(e))
    /\ UNCHANGED <<domain_data, clock, calls>>

\* mutant of IncomingCall: the event reaches only the tracker of the account
\* registered first
IncomingCall_FirstOnly(data) ==
    /\ clock < MaxEvents
    /\ clock' = clock + 1
    /\ trackers' = [e \in EntryIds |->
                      IF trackers[e]._unsub /\ domain_data[1].entry_id = e
                      THEN _handle_incoming_call(trackers[e], data, clock + 1)
                      ELSE trackers[e]]
    /\ states' = PublishAll(states, trackers, trackers', <<E1, E2>>)
    /\ UNCHANGED <<domain_data, calls>>

\* the host bus fires one incoming-call event: every subscribed tracker's
\* callback runs, and each one that accepted the event publishes its state
IncomingCall(data) ==
    /\ clock < MaxEvents
    /\ clock' = clock + 1
    /\ trackers' = [e \in EntryIds |->
                      IF trackers[e]._unsub
                      THEN _handle_incoming_call(trackers[e], data, clock + 1)
                      ELSE trackers[e]]
    /\ states' = PublishAll(states, trackers, trackers', <<E1, E2>>)
    /\ UNCHANGED <<domain_data, calls>>

(***************************************************************************)
(* Entry Selector and Last-Call Sensor Locator (actions.py).               *)
(***************************************************************************)
\* Python truthiness of an optional string argument
Given(v) == v.t = "str" /\ v.s # <<>>

\* mutant of _select_entry_id: the default is the entry registered last
_select_entry_id_Last(dd, requested_entry_id) ==
    IF Len(dd) = 0 THEN PyNone
    ELSE IF Given(requested_entry_id)
         THEN IF \E i \in 1..Len(dd) : dd[i].entry_id = requested_entry_id.s
              THEN requested_entry_id ELSE PyNone
         ELSE PyStr(dd[Len(dd)].entry_id)

\* mutant of _select_entry_id: an unknown requested id falls back to the
\* first configured entry
_select_entry_id_Fallback(dd, requested_entry_id) ==
    IF Len(dd) = 0 THEN PyNone
    ELSE IF Given(requested_entry_id)
              /\ \E i \in 1..Len(dd) : dd[i].entry_id = requested_entry_id.s
         THEN requested_entry_id
         ELSE PyStr(dd[1].entry_id)

\* _select_entry_id(hass, requested_entry_id) over hass.data[DOMAIN] = dd
_select_entry_id(dd, requested_entry_id) ==
    IF Len(dd) = 0 THEN PyNone
    ELSE IF Given(requested_entry_id)
         THEN IF \E i \in 1..Len(dd) : dd[i].entry_id = requested_entry_id.s
              THEN requested_entry_id ELSE PyNone
         ELSE PyStr(dd[1].entry_id)

\* hass.states as the host holds it: foreign entities and the last-call sensors
AllStates(sts) == ForeignStates \o sts

\* hass.states.get(entity_id) is not None
StateExists(sts, eid) == \E i \in 1..Len(AllStates(sts)) : AllStates(sts)[i].entity_id = eid

\* hass.states.get(entity_id)
StateOf(sts, eid) ==
    AllStates(sts)[CHOOSE i \in 1..Len(AllStates(sts)) : AllStates(sts)[i].entity_id = eid]

\* the fallback scan of _find_last_call_sensor_entity_id
SuffixMatches(sts) ==
    {i \in 1..Len(AllStates(sts)) :
        /\ StartsWith(AllStates(sts)[i].entity_id, SensorDot)
        /\ EndsWith(AllStates(sts)[i].entity_id, LastCallSuffix)}

FirstSuffixMatch(sts) ==
    IF SuffixMatches(sts) = {} THEN PyNone
    ELSE PyStr(AllStates(sts)[CHOOSE i \in SuffixMatches(sts) :
                                \A j \in SuffixMatches(sts) : i <= j].entity_id)

\* mutant of _find_last_call_sensor_entity_id: the canonical reference is
\* returned without asking the host whether it exists
_find_last_call_sensor_entity_id_Unchecked(sts, entry_id) ==
    IF Given(entry_id)
    THEN LET phone_digits == IF entry_id.s \in EntryIds
                             THEN PhoneDigits(entry_id.s) ELSE PyNone
             candidate == CanonicalId(phone_digits.s)
             legacy == LegacyId(entry_id.s)
         IN IF Given(phone_digits) THEN PyStr(candidate)
            ELSE IF StateExists(sts, legacy) THEN PyStr(legacy)
            ELSE FirstSuffixMatch(sts)
    ELSE FirstSuffixMatch(sts)

\* mutant of _find_last_call_sensor_entity_id: the scan of all sensors runs
\* before the references of the entry are tried
_find_last_call_sensor_entity_id_ScanFirst(sts, entry_id) ==
    IF SuffixMatches(sts) # {} THEN FirstSuffixMatch(sts)
    ELSE IF Given(entry_id)
    THEN LET phone_digits == IF entry_id.s \in EntryIds
                             THEN PhoneDigits(entry_id.s) ELSE PyNone
             candidate == CanonicalId(phone_digits.s)
             legacy == LegacyId(entry_id.s)
         IN IF Given(phone_digits) /\ StateExists(sts, candidate) THEN PyStr(candidate)
            ELSE IF StateExists(sts, legacy) THEN PyStr(legacy)
            ELSE PyNone
    ELSE PyNone

\* _find_last_call_sensor_entity_id(hass, entry_id)
_find_last_call_sensor_entity_id(sts, entry_id) ==
    IF Given(entry_id)
    THEN LET phone_digits == IF entry_id.s \in EntryIds
                             THEN PhoneDigits(entry_id.s) ELSE PyNone
             candidate == CanonicalId(phone_digits.s)
             legacy == LegacyId(entry_id.s)
         IN IF Given(phone_digits) /\ StateExists(sts, candidate) THEN PyStr(candidate)
            ELSE IF StateExists(sts, legacy) THEN PyStr(legacy)
            ELSE FirstSuffixMatch(sts)
    ELSE FirstSuffixMatch(sts)

(***************************************************************************)
(* Vendor API client: responses of open_relay_by_door_id,                  *)
(* open_relay_by_key_id and end_call_notify.  A response is a mapping      *)
(* (isdict) with an "ok" entry (True, False, the integer 1, or absent), or *)
(* something that is no mapping.  A call may also raise.                   *)
(***************************************************************************)
Resp(isdict, ok) == [isdict |-> isdict, ok |-> ok, error |-> ""]
RespTrue == Resp(TRUE, "True")
RespFalse == Resp(TRUE, "False")
RespNoOk == Resp(TRUE, "absent")
RespOne == Resp(TRUE, "1")
RespNotDict == Resp(FALSE, "absent")
\* Python None where a response is expected
NoResp == Resp(FALSE, "None")
Responses == {RespTrue, RespFalse, RespNoOk, RespOne, RespNotDict}
EndResponses == {RespTrue, RespFalse}

\* {"ok": False, "error": "exception"}
ExceptionResult == [isdict |-> TRUE, ok |-> "False", error |-> "exception"]

\* isinstance(res, dict) and res.get("ok") is True
IsOk(res) == res.isdict /\ res.ok = "True"

(***************************************************************************)
(* Relay-Open Orchestrator (actions.py): the three service handlers.       *)
(***************************************************************************)
Calls == 1..MaxConcurrent

NoResult == [status |-> "", reason |-> "", door_id |-> PyNone, door_name |-> PyNone,
             call_id |-> PyNone, end_call_result |-> NoResp, entity_id |-> PyNone,
             config_entry_id |-> PyNone, response |-> NoResp, state |-> PyNone]

IdleCall == [kind |-> "none", pc |-> "idle", requested |-> PyNone, arg |-> PyNone,
             entry_id |-> PyNone, entity_id |-> PyNone, st |-> PyNone, door_id |-> <<>>,
             raw_call_id |-> PyNone, call_id |-> <<>>, door_name |-> PyNone,
             res |-> NoResp, end_call_result |-> NoResp, issued |-> <<>>,
             outcome |-> "none", error |-> "", result |-> NoResult,
             phone_number |-> PyNone, title |-> PyNone, phone_digits |-> PyNone]

\* the handler returns `result` to its caller
Return(c, result) == [c EXCEPT !.pc = "done", !.outcome = "returned", !.result = result]
\* an exception of kind `err` leaves the handler
Raise(c, err) == [c EXCEPT !.pc = "done", !.outcome = "raised", !.error = err]

\* mutant of IsEmptySentinel: the capitalised "None" is not recognised
IsEmptySentinel_NoCapitalNone(state) == state \in {T_unknown, T_unavailable, T_none, <<>>}

\* st.state in ("unknown", "unavailable", "none", "None", "")
IsEmptySentinel(state) == state \in EmptySentinels

\* mutant of CallIdOf: the call id is not trimmed
CallIdOf_NoStrip(raw_call_id) ==
    IF raw_call_id.t # "None" THEN Str(raw_call_id) ELSE <<>>

\* call_id = str(raw_call_id).strip() if raw_call_id is not None else ""
CallIdOf(raw_call_id) ==
    IF raw_call_id.t # "None" THEN Strip(Str(raw_call_id)) ELSE <<>>

\* Python `a or b`
Or(a, b) == IF Truthy(a) THEN a ELSE b

\* attrs.get("DoorName") or attrs.get("door_name") or attrs.get("Address")
\*   or attrs.get("Body") or attrs.get("Title")
DoorNameOf(attrs) ==
    Or(Get(attrs, "DoorName"), Or(Get(attrs, "door_name"), Or(Get(attrs, "Address"),
       Or(Get(attrs, "Body"), Get(attrs, "Title")))))

\* `if ok and call_id:` guarding end_call_notify
ShouldEndCall(ok, call_id) == ok /\ call_id # <<>>

\* hass.data[DOMAIN][entry_id].get(API) is not None
ApiAvailable(dd, entry_id) ==
    \E i \in 1..Len(dd) : dd[i].entry_id = entry_id.s /\ dd[i].api

\* the vendor method the door-id / key-id handler awaits
OpenMethod(kind) == IF kind = "key" THEN "open_relay_by_key_id" ELSE "open_relay_by_door_id"

\* `await api.<method>(arg)` on the API client of account entry_id
VendorCall(entry_id, method, arg) ==
    [client |-> entry_id.s, method |-> method, arg |-> arg,
     outcome |-> "pending", response |-> NoResp]

\* the pending vendor call (the last one issued) returns `response` or raises
Settled(issued, outcome, response) ==
    [issued EXCEPT ![Len(issued)] = [@ EXCEPT !.outcome = outcome, !.response = response]]

\* handle_open_relay_by_door_id / handle_open_relay_by_key_id up to the
\* vendor call: pc = "open" when the vendor call is issued
StartedSimple(dd, kind, id, requested) ==
    LET entry_id == _select_entry_id(dd, requested)
        c == [IdleCall EXCEPT !.kind = kind, !.requested = requested,
                              !.arg = PyStr(id), !.entry_id = entry_id]
    IN IF ~Given(entry_id) THEN Raise(c, "HomeAssistantError: no config entries")
       ELSE IF ~ApiAvailable(dd, entry_id)
            THEN Raise(c, "HomeAssistantError: api not available")
       ELSE [c EXCEPT !.pc = "open", !.door_id = id,
                      !.issued = <<VendorCall(entry_id, OpenMethod(kind), id)>>]

\* handle_open_relay_by_last_call_door_id up to the vendor call
StartedLast(dd, sts, requested, explicit) ==
    LET entry_id == _select_entry_id(dd, requested)
        c == [IdleCall EXCEPT !.kind = "last", !.requested = requested,
                              !.arg = explicit, !.entry_id = entry_id]
        entity_id == IF Given(explicit) THEN explicit
                     ELSE _find_last_call_sensor_entity_id(sts, entry_id)
        st == StateOf(sts, entity_id.s)
        attrs == st.attributes
        raw_call_id == Get(attrs, "CallId")
    IN IF ~Given(entry_id)
       THEN Return(c, [NoResult EXCEPT !.status = "error", !.reason = "no_config_entries"])
       ELSE IF ~ApiAvailable(dd, entry_id)
       THEN Return(c, [NoResult EXCEPT !.status = "error", !.reason = "api_unavailable",
                                       !.config_entry_id = entry_id])
       ELSE IF ~Given(entity_id)
       THEN Return(c, [NoResult EXCEPT !.status = "error", !.reason = "sensor_not_found",
                                       !.config_entry_id = entry_id])
       ELSE IF ~StateExists(sts, entity_id.s)
       THEN Return([c EXCEPT !.entity_id = entity_id],
                   [NoResult EXCEPT !.status = "error", !.reason = "sensor_not_found",
                                    !.entity_id = entity_id])
       ELSE IF IsEmptySentinel(st.state)
       THEN Return([c EXCEPT !.entity_id = entity_id, !.st = PyStr(st.state)],
                   [NoResult EXCEPT !.status = "skipped", !.reason = "no_last_call",
                                    !.entity_id = entity_id, !.state = PyStr(st.state)])
       ELSE [c EXCEPT !.pc = "open", !.entity_id = entity_id, !.st = PyStr(st.state),
                      !.door_id = st.state,
                      !.raw_call_id = raw_call_id, !.call_id = CallIdOf(raw_call_id),
                      !.door_name = DoorNameOf(attrs),
                      !.issued = <<VendorCall(entry_id, "open_relay_by_door_id", st.state)>>]

\* mutant of FinalResult: a failed end call turns the status into error
FinalResult_EndCallMasks(c) ==
    [NoResult EXCEPT !.status = IF IsOk(c.res) /\ c.end_call_result \in {NoResp, RespTrue}
                                THEN "ok" ELSE "error",
                     !.door_id = PyStr(c.door_id),
                     !.door_name = c.door_name,
                     !.call_id = OrNone(c.call_id),
                     !.end_call_result = c.end_call_result,
                     !.entity_id = c.entity_id,
                     !.config_entry_id = c.entry_id,
                     !.response = c.res]

\* the dict handle_open_relay_by_last_call_door_id returns after the vendor calls
FinalResult(c) ==
    [NoResult EXCEPT !.status = IF IsOk(c.res) THEN "ok" ELSE "error",
                     !.door_id = PyStr(c.door_id),
                     !.door_name = c.door_name,
                     !.call_id = OrNone(c.call_id),
                     !.end_call_result = c.end_call_result,
                     !.entity_id = c.entity_id,
                     !.config_entry_id = c.entry_id,
                     !.response = c.res]

\* the door-id / key-id handler after `res = await api.open_relay_by_..._id(...)`
AfterOpenSimple(c, res) ==
    IF IsOk(res) THEN Return([c EXCEPT !.res = res], NoResult)
    ELSE Raise([c EXCEPT !.res = res], "HomeAssistantError: failed to open relay")

\* the last-call handler after `res = await api.open_relay_by_door_id(door_id)`:
\* pc = "end" when end_call_notify is issued
AfterOpenLast(c, res) ==
    LET c1 == [c EXCEPT !.res = res]
    IN IF ShouldEndCall(IsOk(res), c.call_id)
       THEN [c1 EXCEPT !.pc = "end",
                       !.issued = Append(@, VendorCall(c.entry_id, "end_call_notify",
                                                       c.call_id))]
       ELSE Return(c1, FinalResult(c1))

\* the first vendor call raises: none of the three handlers wraps that await
\* in a try, so the exception leaves the handler
OpenRaised(c) == Raise(c, "VendorException")

\* `end_call_result = await api.end_call_notify(call_id)` returned r
AfterEndCall(c, r) ==
    LET c1 == [c EXCEPT !.end_call_result = r] IN Return(c1, FinalResult(c1))

\* mutant of EndCallRaised: no try around end_call_notify
EndCallRaised_Propagates(c) == Raise(c, "VendorException")

\* end_call_notify raised: `except Exception` records the captured failure
EndCallRaised(c) ==
    LET c1 == [c EXCEPT !.end_call_result = ExceptionResult]
    IN Return(c1, FinalResult(c1))

(***************************************************************************)
(* Buttons (button.py): the "last call" button of an account and the       *)
(* per-door buttons.  A press returns nothing; its record keeps the        *)
(* locals and the vendor calls.                                            *)
(***************************************************************************)
\* phone_digits = extract_phone_digits(config_entry) or config_entry.entry_id
ButtonPhoneDigits(e) == Or(PhoneDigits(e), PyStr(e))

\* IntercomOpenLastCallDoor.async_press of the button of entry e, up to the
\* vendor call
StartedButton(sts, e) ==
    LET phone_digits == ButtonPhoneDigits(e)
        sensor_entity_id == CanonicalId(phone_digits.s)
        c == [IdleCall EXCEPT !.kind = "button", !.entry_id = PyStr(e),
                              !.phone_digits = phone_digits,
                              !.entity_id = PyStr(sensor_entity_id)]
        state == StateOf(sts, sensor_entity_id)
        raw_call_id == Get(state.attributes, "CallId")
    IN IF ~StateExists(sts, sensor_entity_id) THEN Return(c, NoResult)
       ELSE IF IsEmptySentinel(state.state)
       THEN Return([c EXCEPT !.st = PyStr(state.state)], NoResult)
       ELSE [c EXCEPT !.pc = "open", !.st = PyStr(state.state), !.door_id = state.state,
                      !.raw_call_id = raw_call_id, !.call_id = CallIdOf(raw_call_id),
                      !.issued = <<VendorCall(PyStr(e), "open_relay_by_door_id",
                                              state.state)>>]

\* mutant of ButtonAfterOpen: a failed open is tried once more
ButtonAfterOpen_Retry(c, res) ==
    LET c1 == [c EXCEPT !.res = res]
    IN IF ~IsOk(res)
       THEN IF Len(c.issued) < 2
            THEN [c1 EXCEPT !.issued = Append(@, VendorCall(c.entry_id,
                                                  "open_relay_by_door_id", c.door_id))]
            ELSE Return(c1, NoResult)
       ELSE IF c.call_id # <<>>
       THEN [c1 EXCEPT !.pc = "end",
                       !.issued = Append(@, VendorCall(c.entry_id, "end_call_notify",
                                                       c.call_id))]
       ELSE Return(c1, NoResult)

\* the press after `res = await self._api.open_relay_by_door_id(door_id)`
ButtonAfterOpen(c, res) ==
    LET c1 == [c EXCEPT !.res = res]
    IN IF ~IsOk(res) THEN Return(c1, NoResult)
       ELSE IF c.call_id # <<>>
       THEN [c1 EXCEPT !.pc = "end",
                       !.issued = Append(@, VendorCall(c.entry_id, "end_call_notify",
                                                       c.call_id))]
       ELSE Return(c1, NoResult)

\* `end_res = await self._api.end_call_notify(call_id)` returned r
ButtonAfterEndCall(c, r) == Return([c EXCEPT !.end_call_result = r], NoResult)

\* a vendor call of the press raised: `except Exception` logs it
ButtonRaised(c) == Return(c, NoResult)

\* IntercomDoor.async_press of the button of key key_id, up to the vendor call
StartedDoorButton(e, key_id) ==
    [IdleCall EXCEPT !.kind = "doorbutton", !.pc = "open", !.entry_id = PyStr(e),
                     !.arg = PyStr(key_id),
                     !.issued = <<VendorCall(PyStr(e), "open_relay_by_key_id", key_id)>>]

\* the door button after `response = await self._api.open_relay_by_key_id(...)`:
\* a response that is no mapping raises inside the try
DoorButtonAfterOpen(c, res) == Return([c EXCEPT !.res = res], NoResult)

(***************************************************************************)
(* Inputs of the service calls.                                            *)
(***************************************************************************)
RequestedIds == {PyNone, PyStr(<<>>), PyStr(E1), PyStr(E2), PyStr(Unconfigured)}
\* entity_id of the last-call action: omitted, an entity the host does not
\* know, the last-call sensor of e1, or a foreign entity
ExplicitEntities ==
    {PyNone, PyStr(MissingEntity), PyStr(SensorEntityId(E1))}
        \cup {PyStr(ForeignStates[i].entity_id) : i \in 1..Len(ForeignStates)}
\* (config_entry_id, entity_id) of the last-call action: every requested id
\* with the first three entities, and the foreign entities with no requested id
LastInputs ==
    (RequestedIds \X {PyNone, PyStr(MissingEntity), PyStr(SensorEntityId(E1))})
        \cup ({PyNone} \X ExplicitEntities)
DoorIds == {<<"4", "2">>}

\* invocation i has not been made yet
MayStart(i) == calls[i].pc = "idle"

\* service domonap.open_relay_by_door_id is called
StartDoor(i, door_id, requested) ==
    /\ MayStart(i)
    /\ calls' = [calls EXCEPT ![i] = StartedSimple(domain_data, "door", door_id, requested)]
    /\ UNCHANGED <<domain_data, trackers, states, clock>>

\* service domonap.open_relay_by_key_id is called
StartKey(i, key_id, requested) ==
    /\ MayStart(i)
    /\ calls' = [calls EXCEPT ![i] = StartedSimple(domain_data, "key", key_id, requested)]
    /\ UNCHANGED <<domain_data, trackers, states, clock>>

\* mutant of StartLast: an invocation is skipped while another one has a
\* relay-open call pending for the same door
StartLast_Dedup(i, requested, explicit) ==
    LET c == StartedLast(domain_data, states, requested, explicit)
    IN /\ MayStart(i)
       /\ calls' = [calls EXCEPT ![i] =
                       IF c.pc = "open" /\ \E j \in Calls : /\ calls[j].pc = "open"
                                                            /\ calls[j].door_id = c.door_id
                       THEN Return([c EXCEPT !.issued = <<>>],
                                   [NoResult EXCEPT !.status = "skipped",
                                                    !.reason = "in_progress"])
                       ELSE c]
       /\ UNCHANGED <<domain_data, trackers, states, clock>>

\* service domonap.open_relay_by_last_call_door_id is called
StartLast(i, requested, explicit) ==
    /\ MayStart(i)
    /\ calls' = [calls EXCEPT ![i] = StartedLast(domain_data, states, requested, explicit)]
    /\ UNCHANGED <<domain_data, trackers, states, clock>>

\* the "last call" button of entry e is pressed; the button exists once the
\* entry is set up with its API client (button.async_setup_entry)
PressLastCall(i, e) ==
    /\ MayStart(i)
    /\ ApiAvailable(domain_data, PyStr(e))
    /\ calls' = [calls EXCEPT ![i] = StartedButton(states, e)]
    /\ UNCHANGED <<domain_data, trackers, states, clock>>

\* the button of a door (key key_id) of entry e is pressed
PressDoor(i, e, key_id) ==
    /\ MayStart(i)
    /\ ApiAvailable(domain_data, PyStr(e))
    /\ calls' = [calls EXCEPT ![i] = StartedDoorButton(e, key_id)]
    /\ UNCHANGED <<domain_data, trackers, states, clock>>

\* mutant of OpenReturns: the last-call handler reads the CallId attribute
\* of the sensor again after the relay-open call has returned
OpenReturns_Rereads(i, res) ==
    /\ calls[i].pc = "open"
    /\ LET c0 == [calls[i] EXCEPT !.issued = Settled(@, "returned", res)]
           raw == IF c0.kind = "last" /\ StateExists(states, c0.entity_id.s)
                  THEN Get(StateOf(states, c0.entity_id.s).attributes, "CallId")
                  ELSE c0.raw_call_id
           c == [c0 EXCEPT !.raw_call_id = raw, !.call_id = CallIdOf(raw)]
       IN calls' = [calls EXCEPT ![i] =
                       CASE c.kind = "last" -> AfterOpenLast(c, res)
                         [] c.kind = "button" -> ButtonAfterOpen(c, res)
                         [] c.kind = "doorbutton" -> DoorButtonAfterOpen(c, res)
                         [] OTHER -> AfterOpenSimple(c, res)]
    /\ UNCHANGED <<domain_data, trackers, states, clock>>

\* the vendor answers the relay-open call of invocation i
OpenReturns(i, res) ==
    /\ calls[i].pc = "open"
    /\ LET c == [calls[i] EXCEPT !.issued = Settled(@, "returned", res)]
       IN calls' = [calls EXCEPT ![i] =
                       CASE c.kind = "last" -> AfterOpenLast(c, res)
                         [] c.kind = "button" -> ButtonAfterOpen(c, res)
                         [] c.kind = "doorbutton" -> DoorButtonAfterOpen(c, res)
                         [] OTHER -> AfterOpenSimple(c, res)]
    /\ UNCHANGED <<domain_data, trackers, states, clock>>

\* the relay-open call of invocation i raises
OpenRaises(i) ==
    /\ calls[i].pc = "open"
    /\ LET c == [calls[i] EXCEPT !.issued = Settled(@, "raised", NoResp)]
       IN calls' = [calls EXCEPT ![i] = IF c.kind \in {"button", "doorbutton"}
                                        THEN ButtonRaised(c) ELSE OpenRaised(c)]
    /\ UNCHANGED <<domain_data, trackers, states, clock>>

\* mutant of EndReturns: once the call is ended the handler clears the
\* last-call sensor it read
EndReturns_ClearsSensor(i, r) ==
    /\ calls[i].pc = "end"
    /\ LET c == [calls[i] EXCEPT !.issued = Settled(@, "returned", r)]
       IN calls' = [calls EXCEPT ![i] = IF c.kind = "button"
                                        THEN ButtonAfterEndCall(c, r) ELSE AfterEndCall(c, r)]
    /\ trackers' = [e \in EntryIds |->
                      IF PyStr(SensorEntityId(e)) = calls[i].entity_id
                      THEN [trackers[e] EXCEPT !._state = PyNone, !._attrs = EmptyDict]
                      ELSE trackers[e]]
    /\ states' = [k \in 1..Len(states) |->
                    IF PyStr(states[k].entity_id) = calls[i].entity_id
                    THEN [states[k] EXCEPT !.state = T_unknown, !.attributes = EmptyDict]
                    ELSE states[k]]
    /\ UNCHANGED <<domain_data, clock>>

\* the vendor answers end_call_notify of invocation i
EndReturns(i, r) ==
    /\ calls[i].pc = "end"
    /\ LET c == [calls[i] EXCEPT !.issued = Settled(@, "returned", r)]
       IN calls' = [calls EXCEPT ![i] = IF c.kind = "button"
                                        THEN ButtonAfterEndCall(c, r) ELSE AfterEndCall(c, r)]
    /\ UNCHANGED <<domain_data, trackers, states, clock>>

\* end_call_notify of invocation i raises
EndRaises(i) ==
    /\ calls[i].pc = "end"
    /\ LET c == [calls[i] EXCEPT !.issued = Settled(@, "raised", NoResp)]
       IN calls' = [calls EXCEPT ![i] = IF c.kind = "button"
                                        THEN ButtonRaised(c) ELSE EndCallRaised(c)]
    /\ UNCHANGED <<domain_data, trackers, states, clock>>

(***************************************************************************)
(* The system.                                                             *)
(***************************************************************************)
Init ==
    /\ domain_data = <<>>
    /\ trackers = [e \in EntryIds |-> NoTracker]
    /\ states = <<>>
    /\ clock = 0
    /\ calls = [i \in Calls |-> IdleCall]

\* Spec: one invocation of one handler or one button press (slot 1), against
\* every account configuration, sensor state, input and vendor behaviour;
\* events and set-up steps (at most MaxCallEvents events) interleave with the
\* invocation at its suspension points.  The handlers write no shared state,
\* so an invocation behaves the same whatever ran before it.
Next ==
    \/ \E e \in EntryIds, hasApi \in BOOLEAN : RegisterAccount(e, hasApi)
    \/ \E e \in EntryIds : SensorSetup(e)
    \/ \E e \in EntryIds : SensorRemove(e)
    \/ \E data \in Payloads : clock < MaxCallEvents /\ IncomingCall(data)
    \/ \E d \in DoorIds, r \in RequestedIds : StartDoor(1, d, r)
    \/ \E k \in DoorIds, r \in RequestedIds : StartKey(1, k, r)
    \/ \E in \in LastInputs : StartLast(1, in[1], in[2])
    \/ \E e \in EntryIds : PressLastCall(1, e)
    \/ \E e \in EntryIds, k \in DoorIds : PressDoor(1, e, k)
    \/ \E res \in Responses : OpenReturns(1, res)
    \/ OpenRaises(1)
    \/ \E r \in EndResponses : EndReturns(1, r)
    \/ EndRaises(1)

Spec == Init /\ [][Next]_vars

(***************************************************************************)
(* SpecTracker: the trackers alone, under every order of account set-up,   *)
(* sensor set-up, sensor removal and incoming-call events.                 *)
(***************************************************************************)
NextTracker ==
    \/ \E e \in EntryIds, hasApi \in BOOLEAN : RegisterAccount(e, hasApi)
    \/ \E e \in EntryIds : SensorSetup(e)
    \/ \E e \in EntryIds : SensorRemove(e)
    \/ \E data \in Payloads : IncomingCall(data)

SpecTracker == Init /\ [][NextTracker]_vars

(***************************************************************************)
(* SpecSelect: the entry selector applied to every registry of up to       *)
(* MaxAccounts accounts (every registration order, with and without API    *)
(* client) and every requested id.                                         *)
(***************************************************************************)
IdPool == <<E1, E2, <<"e", "3">>, <<"e", "4">>, <<"e", "5">>>>
SelectIds == {IdPool[k] : k \in 1..MaxAccounts}

Registries ==
    UNION {{r \in [1..n -> [entry_id : SelectIds, api : BOOLEAN]] :
                \A j, k \in 1..n : j # k => r[j].entry_id # r[k].entry_id}
           : n \in 0..MaxAccounts}

SelectRequests ==
    {PyNone, PyStr(<<>>), PyStr(Unconfigured)} \cup {PyStr(e) : e \in SelectIds}

InitSelect ==
    /\ domain_data \in Registries
    /\ trackers = [e \in EntryIds |-> NoTracker]
    /\ states = <<>>
    /\ clock = 0
    /\ calls = [i \in Calls |-> IdleCall]

\* entry_id = _select_entry_id(hass, requested_entry_id), as each handler
\* evaluates it first
Select(i, requested) ==
    /\ MayStart(i)
    /\ calls' = [calls EXCEPT ![i] =
                    [IdleCall EXCEPT !.kind = "select", !.pc = "done",
                                     !.requested = requested,
                                     !.entry_id = _select_entry_id(domain_data, requested)]]
    /\ UNCHANGED <<domain_data, trackers, states, clock>>

NextSelect == \E r \in SelectRequests : Select(1, r)

SpecSelect == InitSelect /\ [][NextSelect]_vars

(***************************************************************************)
(* SpecLocate: the sensor locator applied to every host state of up to     *)
(* MaxEntities entities, in every enumeration order: the canonical and the *)
(* legacy sensor of e1, the legacy sensor of e2, the last-call sensor of   *)
(* another account, an entity of another platform with the same suffix,    *)
(* and a sensor without the suffix.                                        *)
(***************************************************************************)
OtherLastCall == SensorDot \o <<"9">> \o LastCallSuffix
NotASensor == <<"x", ".", "9">> \o LastCallSuffix
OtherSensor == SensorDot \o <<"p", "i", "n">>
EntityPool ==
    {CanonicalId(<<"7", "9", "1">>), LegacyId(E1), LegacyId(E2),
     OtherLastCall, NotASensor, OtherSensor}

HostStates ==
    UNION {{h \in [1..n -> [entity_id : EntityPool, state : {<<"4", "2">>},
                            attributes : {EmptyDict}]] :
                \A j, k \in 1..n : j # k => h[j].entity_id # h[k].entity_id}
           : n \in 0..MaxEntities}

LocateArgs == {PyNone, PyStr(<<>>), PyStr(E1), PyStr(E2), PyStr(Unconfigured)}

InitLocate ==
    /\ domain_data = <<>>
    /\ trackers = [e \in EntryIds |-> NoTracker]
    /\ states \in HostStates
    /\ clock = 0
    /\ calls = [i \in Calls |-> IdleCall]

\* entity_id = _find_last_call_sensor_entity_id(hass, entry_id)
Locate(i, entry_id) ==
    /\ MayStart(i)
    /\ calls' = [calls EXCEPT ![i] =
                    [IdleCall EXCEPT !.kind = "locate", !.pc = "done",
                                     !.entry_id = entry_id,
                                     !.entity_id =
                                         _find_last_call_sensor_entity_id(states, entry_id)]]
    /\ UNCHANGED <<domain_data, trackers, states, clock>>

NextLocate == \E entry_id \in LocateArgs : Locate(1, entry_id)

SpecLocate == InitLocate /\ [][NextLocate]_vars

(***************************************************************************)
(* SpecPhone: the phone-identity resolver applied to every phone_number    *)
(* (absent, or a text of up to MaxPhoneLen characters) and every title.    *)
(***************************************************************************)
PhoneAlphabet == {"+", " ", "7", "9"}
PhoneTexts == UNION {[1..n -> PhoneAlphabet] : n \in 0..MaxPhoneLen}
PhoneNumbers == {PyNone} \cup {PyStr(txt) : txt \in PhoneTexts}
Titles == {PyNone} \cup {PyStr(txt) : txt \in PhoneTexts}

\* phone_digits = extract_phone_digits(config_entry) of a config entry with
\* data["phone_number"] = phone_number and the given title
Resolve(i, phone_number, title) ==
    /\ MayStart(i)
    /\ calls' = [calls EXCEPT ![i] =
                    [IdleCall EXCEPT !.kind = "phone", !.pc = "done",
                                     !.phone_number = phone_number,
                                     !.title = title,
                                     !.phone_digits =
                                         extract_phone_digits(phone_number, title)]]
    /\ UNCHANGED <<domain_data, trackers, states, clock>>

NextPhone == \E phone_number \in PhoneNumbers, title \in Titles : Resolve(1, phone_number, title)

SpecPhone == Init /\ [][NextPhone]_vars

(***************************************************************************)
(* SpecConcurrent: up to MaxConcurrent last-call invocations and button    *)
(* presses in flight for one account, interleaved with each other and with *)
(* incoming-call events at their suspension points.  It starts in the      *)
(* state in which account e1 is registered with its API client and its     *)
(* last-call sensor is attached.  The slots are interchangeable, so slot i *)
(* is used only after the slots before it.                                 *)
(***************************************************************************)
ConcurrentPayloads == {PayA, PayB}
ConcurrentResponses == {RespTrue, RespFalse}

InitConcurrent ==
    /\ domain_data = <<[entry_id |-> E1, api |-> TRUE]>>
    /\ trackers = [e \in EntryIds |->
                      IF e = E1 THEN [NewTracker EXCEPT !._unsub = TRUE] ELSE NoTracker]
    /\ states = WriteState(<<>>, SensorEntityId(E1), NewTracker)
    /\ clock = 0
    /\ calls = [i \in Calls |-> IdleCall]

\* the slots before slot i are in use
InTurn(i) == \A j \in 1..(i - 1) : calls[j].pc # "idle"

NextConcurrent ==
    \/ \E data \in ConcurrentPayloads : IncomingCall(data)
    \/ \E i \in Calls : InTurn(i) /\ StartLast(i, PyNone, PyNone)
    \/ \E i \in Calls : InTurn(i) /\ PressLastCall(i, E1)
    \/ \E i \in Calls, res \in ConcurrentResponses : OpenReturns(i, res)
    \/ \E i \in Calls : OpenRaises(i)
    \/ \E i \in Calls : EndReturns(i, RespTrue)
    \/ \E i \in Calls : EndRaises(i)

SpecConcurrent == InitConcurrent /\ [][NextConcurrent]_vars

(***************************************************************************)
(* SpecRepeat: invocations one after another with no incoming-call event   *)
(* between them: events arrive only before the first invocation, and slot  *)
(* i is used once the invocations before it have finished.  Same initial   *)
(* state as SpecConcurrent.                                                *)
(***************************************************************************)
\* no invocation has been made yet
NoneStarted == \A i \in Calls : calls[i].pc = "idle"
\* the invocations in the slots before slot i have finished
AfterOthers(i) == \A j \in 1..(i - 1) : calls[j].pc = "done"

NextRepeat ==
    \/ \E data \in ConcurrentPayloads : NoneStarted /\ IncomingCall(data)
    \/ \E i \in Calls : AfterOthers(i) /\ StartLast(i, PyNone, PyNone)
    \/ \E i \in Calls : AfterOthers(i) /\ PressLastCall(i, E1)
    \/ \E i \in Calls, d \in DoorIds : AfterOthers(i) /\ StartDoor(i, d, PyNone)
    \/ \E i \in Calls, k \in DoorIds : AfterOthers(i) /\ StartKey(i, k, PyNone)
    \/ \E i \in Calls, k \in DoorIds : AfterOthers(i) /\ PressDoor(i, E1, k)
    \/ \E i \in Calls, res \in ConcurrentResponses : OpenReturns(i, res)
    \/ \E i \in Calls : OpenRaises(i)
    \/ \E i \in Calls : EndReturns(i, RespTrue)
    \/ \E i \in Calls : EndRaises(i)

SpecRepeat == InitConcurrent /\ [][NextRepeat]_vars

(***************************************************************************)
(* Properties.                                                             *)
(***************************************************************************)
\* the positions of the end_call_notify calls in an invocation's vendor calls
EndCalls(c) == {k \in 1..Len(c.issued) : c.issued[k].method = "end_call_notify"}
\* the vendor's answer to the relay-open call is a mapping with ok = true
OpenSucceeded(c) ==
    /\ c.issued # <<>>
    /\ c.issued[1].outcome = "returned"
    /\ c.issued[1].response.isdict
    /\ c.issued[1].response.ok = "True"
\* the CallId attribute the invocation read, stringified and trimmed
TrimmedCallId(c) ==
    IF c.raw_call_id.t = "None" THEN <<>> ELSE Strip(Str(c.raw_call_id))

\* C1: in every open_by_last_call invocation end_call_notify is invoked only
\* after the relay-open call of that invocation returned a mapping with
\* ok = true and only when the CallId read from the sensor is non-empty after
\* str() and strip(); it is then invoked exactly once, as the second vendor
\* call, with the trimmed call id; and an invocation that has returned with
\* both conditions true has invoked it.
C1_EndCallIffOkAndCallId ==
    \A i \in Calls :
        LET c == calls[i] IN
        c.kind = "last" =>
            /\ Cardinality(EndCalls(c)) <= 1
            /\ \A k \in EndCalls(c) :
                  /\ k = 2
                  /\ c.issued[1].method = "open_relay_by_door_id"
                  /\ OpenSucceeded(c)
                  /\ TrimmedCallId(c) # <<>>
                  /\ c.issued[k].arg = TrimmedCallId(c)
            /\ (OpenSucceeded(c) /\ TrimmedCallId(c) # <<>>) => EndCalls(c) = {2}

\* C1 witness: the open returned ok, the sensor held CallId " 123 " and
\* end_call_notify("123") was issued; the invocation has returned.
C1_Witness ==
    \E i \in Calls :
        /\ calls[i].kind = "last" /\ calls[i].pc = "done"
        /\ calls[i].raw_call_id = PyStr(<<" ", "1", "2", "3", " ">>)
        /\ Len(calls[i].issued) = 2
        /\ calls[i].issued[2].method = "end_call_notify"
        /\ calls[i].issued[2].arg = <<"1", "2", "3">>

\* C2: open_by_last_call never raises to its caller: every finished
\* invocation has returned a result, and when the relay-open call returned a
\* non-success shape or raised, that result has status = error.
C2_NeverRaises ==
    \A i \in Calls :
        LET c == calls[i] IN
        (c.kind = "last" /\ c.pc = "done") =>
            /\ c.outcome = "returned"
            /\ (c.issued # <<>> /\ ~OpenSucceeded(c)) => c.result.status = "error"

\* C3: when end_call_notify raises after a successful open, the invocation
\* still returns, with status = ok and
\* end_call_result = {ok: false, error: "exception"}.
C3_EndCallExceptionSwallowed ==
    \A i \in Calls :
        LET c == calls[i] IN
        (c.kind = "last" /\ \E k \in EndCalls(c) : c.issued[k].outcome = "raised") =>
            /\ c.pc = "done"
            /\ c.outcome = "returned"
            /\ c.result.status = "ok"
            /\ c.result.end_call_result = [isdict |-> TRUE, ok |-> "False",
                                           error |-> "exception"]

\* C3 witness: end_call_notify raised in an invocation whose open succeeded.
C3_Witness ==
    \E i \in Calls :
        /\ calls[i].kind = "last"
        /\ OpenSucceeded(calls[i])
        /\ Len(calls[i].issued) = 2
        /\ calls[i].issued[2].outcome = "raised"

\* C4: in every open_by_last_call invocation that got a response to its
\* relay-open call and has finished, the status is ok exactly when that
\* response is a mapping with ok = true, whatever end_call_notify did (not
\* called, returned ok true, returned ok false, raised).
C4_StatusIsOpenOutcome ==
    \A i \in Calls :
        LET c == calls[i] IN
        (c.kind = "last" /\ c.pc = "done" /\ c.issued # <<>>
            /\ c.issued[1].outcome = "returned") =>
            /\ c.outcome = "returned"
            /\ c.result.status \in {"ok", "error"}
            /\ c.result.status = "ok" <=> OpenSucceeded(c)

\* C4 witness: the open succeeded, end_call_notify answered ok = false, and
\* the status is ok.
C4_Witness ==
    \E i \in Calls :
        /\ calls[i].kind = "last" /\ calls[i].pc = "done"
        /\ OpenSucceeded(calls[i])
        /\ Len(calls[i].issued) = 2
        /\ calls[i].issued[2].outcome = "returned"
        /\ calls[i].issued[2].response.ok = "False"
        /\ calls[i].result.status = "ok"

\* C5: in open_by_door_id and open_by_key_id, once the vendor call has been
\* made, the invocation succeeds only when the response is a mapping with
\* ok = true, and every other outcome of the vendor call (non-mapping,
\* ok false or absent, the call raising) ends it with the same
\* RelayOpenFailed failure.
C5_FailureIsRelayOpenFailed ==
    \A i \in Calls :
        LET c == calls[i] IN
        (c.kind \in {"door", "key"} /\ c.pc = "done" /\ c.issued # <<>>) =>
            IF OpenSucceeded(c) THEN c.outcome = "returned"
            ELSE /\ c.outcome = "raised"
                 /\ c.error = "HomeAssistantError: failed to open relay"

\* C6: an open_by_last_call invocation that resolved its account and API
\* client and read a sensor value in {"unknown", "unavailable", "none",
\* "None", ""} has returned status = skipped, reason = no_last_call, and has
\* issued no vendor call.
C6_SentinelSkips ==
    \A i \in Calls :
        LET c == calls[i] IN
        (c.kind = "last" /\ c.st.t = "str"
            /\ c.st.s \in {<<"u", "n", "k", "n", "o", "w", "n">>,
                           <<"u", "n", "a", "v", "a", "i", "l", "a", "b", "l", "e">>,
                           <<"n", "o", "n", "e">>, <<"N", "o", "n", "e">>, <<>>}) =>
            /\ c.pc = "done"
            /\ c.outcome = "returned"
            /\ c.result.status = "skipped"
            /\ c.result.reason = "no_last_call"
            /\ c.issued = <<>>

\* C6 witness: the located sensor of an account that has had no call yet
\* reads "unknown" and the invocation was skipped.
C6_Witness ==
    \E i \in Calls :
        /\ calls[i].kind = "last"
        /\ calls[i].arg = PyNone
        /\ calls[i].st = PyStr(<<"u", "n", "k", "n", "o", "w", "n">>)
        /\ calls[i].result.status = "skipped"

\* a specific entry id was requested
RequestedSpecific(c) == c.requested.t = "str" /\ c.requested.s # <<>>

\* C7: the entry selector returns absent when no account is configured;
\* the requested id when it is configured; absent when a requested id is
\* not configured; and, with no requested id (None or the empty string),
\* the account registered first.
C7_SelectEntry ==
    \A i \in Calls :
        LET c == calls[i]
            ids == {domain_data[k].entry_id : k \in 1..Len(domain_data)}
        IN c.kind = "select" =>
            /\ Len(domain_data) = 0 => c.entry_id = PyNone
            /\ (RequestedSpecific(c) /\ c.requested.s \in ids) => c.entry_id = c.requested
            /\ (RequestedSpecific(c) /\ c.requested.s \notin ids) => c.entry_id = PyNone
            /\ (~RequestedSpecific(c) /\ Len(domain_data) > 0) =>
                  c.entry_id = PyStr(domain_data[1].entry_id)

\* C7 witness: e2 was registered before e1, no id was requested, and the
\* selector returned e2.
C7_Witness ==
    \E i \in Calls :
        /\ Len(domain_data) = 2
        /\ domain_data[1].entry_id = <<"e", "2">>
        /\ domain_data[2].entry_id = <<"e", "1">>
        /\ calls[i].kind = "select"
        /\ calls[i].requested = PyNone
        /\ calls[i].entry_id = PyStr(<<"e", "2">>)

\* C8: when a specific entry id is requested that is not among the
\* configured accounts, the invocation has failed (raise for the door/key
\* actions, status = error with reason no_config_entries for the last-call
\* action) without any vendor call; and every vendor call of an invocation
\* that requested a specific entry id is issued on that account's client.
C8_RequestedEntryOnly ==
    \A i \in Calls :
        LET c == calls[i] IN
        (c.kind \in {"door", "key", "last"} /\ RequestedSpecific(c)) =>
            /\ (\A k \in 1..Len(domain_data) : domain_data[k].entry_id # c.requested.s) =>
                  /\ c.pc = "done"
                  /\ c.issued = <<>>
                  /\ IF c.kind = "last"
                     THEN /\ c.outcome = "returned"
                          /\ c.result.status = "error"
                          /\ c.result.reason = "no_config_entries"
                     ELSE /\ c.outcome = "raised"
                          /\ c.error = "HomeAssistantError: no config entries"
            /\ \A k \in 1..Len(c.issued) : c.issued[k].client = c.requested.s

\* C8 witness: two accounts are configured, an id that is neither was
\* requested, and the last-call action failed with no_config_entries.
C8_Witness ==
    \E i \in Calls :
        /\ Len(domain_data) = 2
        /\ domain_data[1].api /\ domain_data[2].api
        /\ calls[i].kind = "last"
        /\ calls[i].requested = PyStr(<<"z", "z">>)
        /\ calls[i].result.reason = "no_config_entries"

\* the payload has no DoorId, or an empty one
NoDoorId(data) ==
    \/ "DoorId" \notin DOMAIN data
    \/ data["DoorId"] = PyStr(<<>>)

\* C9: an incoming-call event whose payload has no DoorId, or an empty
\* DoorId, changes no tracker (door id, attributes, timestamp, number of
\* state notifications) and no published state.
C9_InvalidEventIgnored ==
    [][\A data \in Payloads :
          (IncomingCall(data) /\ NoDoorId(data)) =>
              (trackers' = trackers /\ states' = states)]_vars

\* C9 witness: an attached tracker still holds the state of the first event
\* after the second event was delivered.
C9_Witness ==
    /\ clock = 2
    /\ trackers[E1]._unsub
    /\ trackers[E1].writes = 1
    /\ trackers[E1]._attrs["ts"] = PyStr(<<"1", "+", "0", "0", ":", "0", "0", "Z">>)

\* C10: a valid incoming-call event leaves every attached tracker with the
\* stringified DoorId of that event as its door id and with exactly the
\* event's payload plus the processing timestamp as its attributes (no key
\* of an earlier payload survives), notifies the host once, and the host
\* shows that state.
C10_LatestEventReplaces ==
    [][\A data \in Payloads :
          (IncomingCall(data) /\ ~NoDoorId(data)) =>
              \A e \in EntryIds :
                  trackers[e]._unsub =>
                      /\ trackers'[e]._state = PyStr(Str(data["DoorId"]))
                      /\ (data = PayB => trackers'[e]._state.s = <<"7">>)
                      /\ DOMAIN trackers'[e]._attrs = DOMAIN data \cup {"ts"}
                      /\ \A k \in DOMAIN data : trackers'[e]._attrs[k] = data[k]
                      /\ trackers'[e]._attrs["ts"] = Timestamp(clock')
                      /\ trackers'[e].writes = trackers[e].writes + 1
                      /\ StateOf(states', SensorEntityId(e)).state = Str(data["DoorId"])
                      /\ StateOf(states', SensorEntityId(e)).attributes
                            = trackers'[e]._attrs]_vars

\* C10 witness: both trackers took a first event carrying a CallId; the
\* sensor of e2 was then removed and still holds that payload, while the
\* tracker of e1 took a second event without CallId and holds door id "44"
\* and no CallId.
C10_Witness ==
    /\ trackers[E1]._unsub
    /\ trackers[E1].writes = 2
    /\ trackers[E1]._state = PyStr(<<"4", "4">>)
    /\ DOMAIN trackers[E1]._attrs = {"DoorId", "ts"}
    /\ ~trackers[E2]._unsub
    /\ trackers[E2].writes = 1
    /\ "CallId" \in DOMAIN trackers[E2]._attrs
    /\ trackers[E2]._attrs["ts"] = PyStr(<<"1", "+", "0", "0", ":", "0", "0", "Z">>)


\* the positions of the relay-open calls in an invocation's vendor calls
OpenCalls(c) ==
    {k \in 1..Len(c.issued) :
        c.issued[k].method \in {"open_relay_by_door_id", "open_relay_by_key_id"}}
\* the handlers and button presses that call the vendor
EntryPoints == {"door", "key", "last", "button", "doorbutton"}

\* C12: no retries: in one invocation of any entry point (the three
\* actions, the last-call button, a door button) the relay-open call is
\* issued at most once and end_call_notify at most once; no vendor call
\* follows one that raised, and none follows a relay-open call whose answer
\* was not a success.
C12_NoRetries ==
    \A i \in Calls :
        LET c == calls[i] IN
        c.kind \in EntryPoints =>
            /\ Cardinality(OpenCalls(c)) <= 1
            /\ Cardinality(EndCalls(c)) <= 1
            /\ \A k \in 1..Len(c.issued) :
                  (\/ c.issued[k].outcome = "raised"
                   \/ /\ k \in OpenCalls(c)
                      /\ c.issued[k].outcome = "returned"
                      /\ ~(c.issued[k].response.isdict /\ c.issued[k].response.ok = "True"))
                  => k = Len(c.issued)

\* C12 witness: a press of the last-call button has finished after its one
\* relay-open call was answered ok = false.
C12_Witness ==
    \E i \in Calls :
        /\ calls[i].kind = "button" /\ calls[i].pc = "done"
        /\ Len(calls[i].issued) = 1
        /\ calls[i].issued[1].outcome = "returned"
        /\ calls[i].issued[1].response.ok = "False"

\* the vendor calls as the vendor sees them: method and argument, in order
CallSequence(issued) == [k \in 1..Len(issued) |-> <<issued[k].method, issued[k].arg>>]

\* C13: a press of an account's last-call button issues the same sequence
\* of vendor calls as the last-call action invoked for that account with no
\* explicit entity reference would in the same host state and under the same
\* vendor behaviour: the same relay-open call (or none) when it starts, and
\* the same end_call_notify call (or none) once the relay-open call is
\* answered.
C13_ButtonSameAsAction ==
    [][/\ \A e \in EntryIds :
            PressLastCall(1, e) =>
                CallSequence(calls'[1].issued)
                    = CallSequence(StartedLast(domain_data, states, PyStr(e), PyNone).issued)
       /\ \A res \in Responses :
            (OpenReturns(1, res) /\ calls[1].kind = "button") =>
                CallSequence(calls'[1].issued)
                    = CallSequence(AfterOpenLast([calls[1] EXCEPT
                                       !.issued = Settled(@, "returned", res)], res).issued)]_vars


\* the invocation read a sensor value that is none of the empty sentinels
SawDoor(c) == c.st.t = "str" /\ c.st.s \notin EmptySentinels
\* the relay-open call an invocation issues for the door id it read
IsOpenOf(call, c) ==
    /\ call.method = "open_relay_by_door_id"
    /\ call.arg = c.st.s
    /\ call.client = c.entry_id.s

\* C11: when two open_by_last_call invocations against the same account
\* have both read the same non-sentinel sensor value, each of them has issued
\* its own relay-open call for that door id, whatever the other one is doing
\* (pending, finished, failed): none is suppressed, deduplicated or made to
\* wait.
C11_BothOpen ==
    \A i, j \in Calls :
        LET c == calls[i]
            d == calls[j]
        IN (i # j /\ c.kind = "last" /\ d.kind = "last" /\ c.entry_id = d.entry_id
                /\ SawDoor(c) /\ SawDoor(d) /\ c.st = d.st) =>
               /\ c.issued # <<>> /\ IsOpenOf(c.issued[1], c)
               /\ d.issued # <<>> /\ IsOpenOf(d.issued[1], d)

\* C11 witness: two invocations have read door id "42" and the relay-open
\* calls of both are pending at the same time.
C11_Witness ==
    /\ calls[1].kind = "last" /\ calls[2].kind = "last"
    /\ calls[1].pc = "open" /\ calls[2].pc = "open"
    /\ calls[1].door_id = <<"4", "2">> /\ calls[2].door_id = <<"4", "2">>
    /\ calls[1].issued[1].outcome = "pending"
    /\ calls[2].issued[1].outcome = "pending"

\* an invocation that reads the last-call sensor
ReadsLastCall(c) == c.kind \in {"last", "button"}

\* C15: the tracker's state is written only by the event callback: a step
\* of an action handler or of a button press (any step that changes an
\* invocation) changes no tracker and no published sensor state; so, with no
\* event in between, the sensor still holds the door id and CallId an
\* invocation has read, after a successful open and end-call notification
\* too, and every later invocation opens the same door and ends the same
\* call again.
C15_OnlyEventsWriteTracker ==
    [][/\ calls' # calls => (trackers' = trackers /\ states' = states)
       /\ \A i \in Calls :
            LET c == calls'[i] IN
            (ReadsLastCall(c) /\ c.issued # <<>>) =>
                /\ trackers'[E1]._state = PyStr(c.door_id)
                /\ Get(trackers'[E1]._attrs, "CallId") = c.raw_call_id
                /\ \A j \in Calls :
                      LET d == calls'[j] IN
                      (ReadsLastCall(d) /\ d.st.t = "str") =>
                          /\ d.issued # <<>>
                          /\ d.issued[1].arg = c.issued[1].arg
                          /\ (OpenSucceeded(c) /\ OpenSucceeded(d)) =>
                                \A k \in EndCalls(c) :
                                    /\ EndCalls(d) = {k}
                                    /\ d.issued[k].arg = c.issued[k].arg]_vars

\* C15 witness: an invocation has opened door "42" and ended call "123" with
\* success, and the next invocation has issued end_call_notify("123") again.
C15_Witness ==
    /\ calls[1].kind = "last" /\ calls[1].pc = "done"
    /\ calls[1].result.status = "ok"
    /\ calls[1].result.end_call_result = RespTrue
    /\ calls[1].issued[2].arg = <<"1", "2", "3">>
    /\ ReadsLastCall(calls[2])
    /\ Len(calls[2].issued) = 2
    /\ calls[2].issued[1].arg = <<"4", "2">>
    /\ calls[2].issued[2].arg = <<"1", "2", "3">>

\* C18: an invocation that reads the last-call sensor (action or button)
\* takes the door id and the CallId from the one sensor state it reads,
\* which is what the tracker holds at that moment (its most recent valid
\* event); from then on its door id and call id do not change, whatever
\* events arrive while it is suspended; the relay-open call carries that
\* door id and end_call_notify the trimmed CallId of the same event.
C18_SnapshotConsistent ==
    [][\A i \in Calls :
          LET c == calls[i]
              d == calls'[i]
          IN /\ (c.pc = "idle" /\ ReadsLastCall(d) /\ d.issued # <<>>) =>
                   \E e \in EntryIds :
                       /\ d.entity_id = PyStr(SensorEntityId(e))
                       /\ trackers[e].writes > 0
                       /\ PyStr(d.door_id) = trackers[e]._state
                       /\ d.raw_call_id = Get(trackers[e]._attrs, "CallId")
             /\ (ReadsLastCall(c) /\ c.issued # <<>>) =>
                   /\ d.door_id = c.door_id
                   /\ d.raw_call_id = c.raw_call_id
                   /\ d.call_id = c.call_id
             /\ (ReadsLastCall(d) /\ d.issued # <<>>) =>
                   /\ d.issued[1].method = "open_relay_by_door_id"
                   /\ d.issued[1].arg = d.door_id
                   /\ \A k \in EndCalls(d) :
                         /\ d.raw_call_id.t # "None"
                         /\ d.issued[k].arg = Strip(Str(d.raw_call_id))]_vars

\* C18 witness: an invocation read door "42" with CallId " 123 "; a later
\* event made the tracker hold door "7" with CallId 8; the invocation has
\* issued end_call_notify("123").
C18_Witness ==
    \E i \in Calls :
        /\ ReadsLastCall(calls[i])
        /\ calls[i].door_id = <<"4", "2">>
        /\ Len(calls[i].issued) = 2
        /\ calls[i].issued[1].arg = <<"4", "2">>
        /\ calls[i].issued[2].arg = <<"1", "2", "3">>
        /\ trackers[E1]._state = PyStr(<<"7">>)
        /\ Get(trackers[E1]._attrs, "CallId") = PyInt(8)

\* the state of a tracker right after construction (__init__): no door id,
\* no attributes, no subscription
Constructed(tr) == tr._state = PyNone /\ tr._attrs = EmptyDict /\ ~tr._unsub

\* C14: tracker lifecycle.  Attach leaves the tracker listening; while it
\* is attached and has taken no valid event it holds no door id and no
\* attributes, and the host shows "unknown".  Detach releases the
\* subscription (uninitialized: the tracker holds no subscription), and takes
\* a tracker that has had no call back to the state it was constructed in.
\* An event delivered to the bus after detach changes neither the door id
\* nor the attributes of that tracker, and sends no notification for it.
C14_TrackerLifecycle ==
    [][\A e \in EntryIds :
          /\ SensorSetup(e) => (trackers'[e]._unsub /\ trackers'[e]._state = PyNone)
          /\ SensorRemove(e) =>
                /\ ~trackers'[e]._unsub
                /\ trackers'[e]._state = trackers[e]._state
                /\ trackers[e].writes = 0 => Constructed(trackers'[e])
          /\ \A data \in Payloads :
                (IncomingCall(data) /\ ~trackers[e]._unsub) =>
                    /\ trackers'[e] = trackers[e]
                    /\ ~StateExists(states', SensorEntityId(e))
          /\ (trackers'[e]._unsub /\ trackers'[e].writes = 0) =>
                /\ trackers'[e]._state = PyNone
                /\ trackers'[e]._attrs = EmptyDict
                /\ StateOf(states', SensorEntityId(e)).state = T_unknown]_vars

\* C14 witness: the tracker of e1 took the first event and was detached;
\* the second event, a valid one that the tracker of e2 took, left it as it
\* was.
C14_Witness ==
    /\ trackers[E1].exists /\ ~trackers[E1]._unsub
    /\ trackers[E1].writes = 1
    /\ Get(trackers[E1]._attrs, "ts") = PyStr(<<"1", "+", "0", "0", ":", "0", "0", "Z">>)
    /\ trackers[E2]._unsub
    /\ Get(trackers[E2]._attrs, "ts") = PyStr(<<"2", "+", "0", "0", ":", "0", "0", "Z">>)

\* C20: every attached tracker handles every incoming-call event, whatever
\* its account: after a valid event all trackers that were attached when it
\* was delivered hold the same door id and the same attributes (the event's
\* payload, CallId included), each has notified the host once, and their
\* published states are equal.
C20_AllTrackersTakeEveryEvent ==
    [][\A data \in Payloads :
          (IncomingCall(data) /\ ~NoDoorId(data)) =>
              \A a, b \in EntryIds :
                  (trackers[a]._unsub /\ trackers[b]._unsub) =>
                      /\ trackers'[a].writes = trackers[a].writes + 1
                      /\ trackers'[a]._state = trackers'[b]._state
                      /\ trackers'[a]._attrs = trackers'[b]._attrs
                      /\ Get(trackers'[a]._attrs, "CallId") = Get(data, "CallId")
                      /\ Get(trackers'[b]._attrs, "CallId") = Get(data, "CallId")
                      /\ StateOf(states', SensorEntityId(a)).state
                            = StateOf(states', SensorEntityId(b)).state
                      /\ StateOf(states', SensorEntityId(a)).attributes
                            = StateOf(states', SensorEntityId(b)).attributes]_vars

\* C20 witness: the trackers of both accounts, attached before the first
\* event, both hold door id "42" and CallId " 123 " of that event.
C20_Witness ==
    /\ clock = 1
    /\ trackers[E1]._unsub /\ trackers[E2]._unsub
    /\ trackers[E1]._state = PyStr(<<"4", "2">>)
    /\ trackers[E2]._state = PyStr(<<"4", "2">>)
    /\ trackers[E2]._attrs["CallId"] = PyStr(<<" ", "1", "2", "3", " ">>)
    /\ trackers[E1]._attrs = trackers[E2]._attrs

\* the host knows entity eid
Known(eid) == \E k \in 1..Len(AllStates(states)) : AllStates(states)[k].entity_id = eid
\* the k-th enumerated entity is a sensor whose id ends with _last_call_door_id
IsLastCallSensor(k) ==
    LET eid == AllStates(states)[k].entity_id
    IN /\ Len(eid) >= 7 /\ SubSeq(eid, 1, 7) = <<"s", "e", "n", "s", "o", "r", ".">>
       /\ Len(eid) >= Len(LastCallSuffix)
       /\ \A n \in 1..Len(LastCallSuffix) :
             eid[Len(eid) - Len(LastCallSuffix) + n] = LastCallSuffix[n]
\* r is what step 3 of the locator returns: the first enumerated last-call
\* sensor, absent when there is none
IsScanResult(r) ==
    IF \E k \in 1..Len(AllStates(states)) : IsLastCallSensor(k)
    THEN \E k \in 1..Len(AllStates(states)) :
            /\ IsLastCallSensor(k)
            /\ \A j \in 1..(k - 1) : ~IsLastCallSensor(j)
            /\ r = PyStr(AllStates(states)[k].entity_id)
    ELSE r = PyNone

\* C16: the locator returns, first match wins: (1) with an entry id whose
\* account has phone digits, "sensor.<digits>_last_call_door_id" if the host
\* knows it; (2) else, with an entry id, "sensor.domonap_<entry_id>_
\* last_call_door_id" if the host knows it; (3) else the first enumerated
\* sensor whose id ends with _last_call_door_id, absent when there is none.
\* With no entry id (None or "") only step 3 runs.  It never returns a
\* reference the host does not know.
C16_LocatorOrder ==
    \A i \in Calls :
        LET c == calls[i]
            r == c.entity_id
            given == c.entry_id.t = "str" /\ c.entry_id.s # <<>>
            digits == IF given /\ c.entry_id.s = E1 THEN <<"7", "9", "1">> ELSE <<>>
            canonical == SensorDot \o digits \o LastCallSuffix
            legacy == SensorDot \o DomainName \o <<"_">> \o c.entry_id.s \o LastCallSuffix
            step1 == given /\ digits # <<>> /\ Known(canonical)
            step2 == given /\ ~step1 /\ Known(legacy)
        IN c.kind = "locate" =>
            /\ r # PyNone => Known(r.s)
            /\ step1 => r = PyStr(canonical)
            /\ step2 => r = PyStr(legacy)
            /\ (~step1 /\ ~step2) => IsScanResult(r)

\* C16 witness: the canonical sensor of e1 is not known, its legacy sensor
\* is enumerated after another account's last-call sensor, and the locator
\* returned the legacy reference for e1.
C16_Witness ==
    \E i \in Calls :
        /\ calls[i].kind = "locate"
        /\ calls[i].entry_id = PyStr(E1)
        /\ Len(states) >= 2
        /\ states[1].entity_id = OtherLastCall
        /\ states[2].entity_id = LegacyId(E1)
        /\ ~Known(CanonicalId(<<"7", "9", "1">>))
        /\ calls[i].entity_id = PyStr(LegacyId(E1))

\* the digit characters of a text, in their order
DigitsOf(txt) ==
    SelectSeq(txt, LAMBDA ch : ch \in {"0", "1", "2", "3", "4", "5", "6", "7", "8", "9"})
\* the text of an optional string ("" when absent)
TextOf(v) == IF v.t = "str" THEN v.s ELSE <<>>
\* the text has a character that is no white space
NonBlank(txt) == \E k \in 1..Len(txt) : txt[k] \notin {" ", "\t", "\n", "\r"}

\* C17: the resolver returns the digits of phone_number, in their order,
\* when phone_number is a non-empty string after trimming with at least one
\* digit; when phone_number is non-empty without a digit it falls through to
\* the title and returns the title's digits, if any; and it returns absent
\* only when neither phone_number nor title has a digit.
C17_PhoneThenTitle ==
    \A i \in Calls :
        LET c == calls[i]
            pd == DigitsOf(TextOf(c.phone_number))
            td == DigitsOf(TextOf(c.title))
            nonEmpty == NonBlank(TextOf(c.phone_number))
        IN c.kind = "phone" =>
            /\ (nonEmpty /\ pd # <<>>) => c.phone_digits = PyStr(pd)
            /\ (nonEmpty /\ pd = <<>> /\ td # <<>>) => c.phone_digits = PyStr(td)
            /\ c.phone_digits = PyNone => (pd = <<>> /\ td = <<>>)

\* the invocation i reads a sensor for an account in this step: the
\* last-call action, called with no explicit entity reference, has got past
\* the locator
LocatesFor(i) ==
    /\ calls[i].pc = "idle"
    /\ calls'[i].kind = "last"
    /\ calls'[i].arg = PyNone
    /\ calls'[i].st.t = "str"

\* C19 as claimed: when open_by_last_call is invoked for account A with no
\* explicit entity reference while several accounts are configured, the
\* sensor it reads, and so the door id it opens, is the last-call sensor of
\* account A.
C19_OwnSensorOnly ==
    [][(LocatesFor(1) /\ calls'[1].issued # <<>> /\ Len(domain_data) >= 2) =>
          LET A == calls'[1].entry_id.s
          IN /\ calls'[1].entity_id = PyStr(SensorEntityId(A))
             /\ calls'[1].st = PyStr(HostState(trackers[A]._state))]_vars

\* C19 amended: the sensor read for account A is the one the host knows
\* under A's canonical reference (A has phone digits), else the one it knows
\* under A's legacy reference, and the door id opened is the one that sensor
\* holds; only when the host knows neither is the first enumerated last-call
\* sensor read, which can be the sensor of another account.
C19_OwnSensorWhenKnown ==
    [][LocatesFor(1) =>
          LET A == calls'[1].entry_id.s
              digits == IF A = E1 THEN <<"7", "9", "1">> ELSE <<>>
              canonical == SensorDot \o digits \o LastCallSuffix
              legacy == SensorDot \o DomainName \o <<"_">> \o A \o LastCallSuffix
              own == IF digits # <<>> /\ Known(canonical) THEN canonical ELSE legacy
          IN /\ Known(own) =>
                  /\ calls'[1].entity_id = PyStr(own)
                  /\ calls'[1].st = PyStr(StateOf(states, own).state)
                  /\ calls'[1].issued # <<>> =>
                        calls'[1].issued[1].arg = StateOf(states, own).state
             /\ ~Known(own) => IsScanResult(calls'[1].entity_id)]_vars

\* C19 witness: the sensor of e2 is enumerated before the sensor of e1, both
\* hold a door id, and the action invoked for e1 has read the sensor of e1
\* and issued the relay-open call for its door id.
C19_Witness ==
    /\ Len(states) = 2
    /\ states[1].entity_id = LegacyId(E2)
    /\ states[2].entity_id = CanonicalId(<<"7", "9", "1">>)
    /\ states[1].state = <<"4", "2">>
    /\ calls[1].kind = "last"
    /\ calls[1].arg = PyNone
    /\ calls[1].entry_id = PyStr(E1)
    /\ calls[1].entity_id = PyStr(CanonicalId(<<"7", "9", "1">>))
    /\ calls[1].issued # <<>>
    /\ calls[1].issued[1].arg = <<"4", "2">>

=============================================================================
